---- MODULE Spec2Model ----
(***************************************************************************)
(* Inference-runner instrumentation harness:                               *)
(*   - inference_timing.c : GPIO timing-signal controller                  *)
(*   - MainLoop.cc        : WaitForInputChoice, LoadInputFromUART, MainLoop*)
(* The program is single threaded; pc is the position of its one thread.   *)
(***************************************************************************)
EXTENDS Integers, Sequences, FiniteSets, TLC

VARIABLES
    pc,                  \* position of the single thread of control
    initialized,         \* inference_timing.c: static bool initialized
    special_initialized, \* inference_timing.c: static bool special_initialized
    line,                \* logical level of each GPIO0 pin
    initRet,             \* <<value returned by the last inference_timing_init()>>, <<>> before
    specialRet,          \* the same for inference_timing_special_init()
    i,                   \* inference_timing_cycle_routine: loop index
    trace,               \* calls made to the external collaborators and log lines
    model,               \* the model's input tensors (GetNumInputs / GetInputTensor)
    inputIndex,          \* LoadInputFromUART: loop index over the tensors
    bytesRemaining,      \* LoadInputFromUART: uint32_t bytesRemaining
    totalRead,           \* LoadInputFromUART: uint32_t totalRead
    chunkReqs,           \* uart_receive_bulk calls issued by the current load
    loadRet,             \* what LoadInputFromUART handed back to its caller
    consumed,            \* characters delivered by uart_getchar
    loadFromUART,        \* MainLoop: bool loadFromUART
    inference_success    \* MainLoop: bool inference_success

vars == <<pc, initialized, special_initialized, line, initRet, specialRet, i,
          trace, model, inputIndex, bytesRemaining, totalRead, chunkReqs,
          loadRet, consumed, loadFromUART, inference_success>>

ctlVars  == <<initialized, special_initialized, line, initRet, specialRet, i>>
loadVars == <<inputIndex, bytesRemaining, totalRead, chunkReqs, loadRet>>
mainVars == <<consumed, loadFromUART, inference_success>>

(***************************************************************************)
(* Bounds of the exploration.                                              *)
(***************************************************************************)
MaxInputs  == 2   \* at most this many input tensors in a model
MaxChunks  == 2   \* tensor sizes go up to MaxChunks full chunks plus a tail
MaxDiscard == 2   \* at most this many invalid characters before a valid one

(***************************************************************************)
(* inference_timing.c                                                      *)
(***************************************************************************)
PRE_INFERENCE_GPIO_PIN  == 0
POST_INFERENCE_GPIO_PIN == 1
SPECIAL_PIN_0 == 0
SPECIAL_PIN_1 == 1
SPECIAL_PIN_2 == 2
SPECIAL_PIN_4 == 4

Pins == {PRE_INFERENCE_GPIO_PIN, POST_INFERENCE_GPIO_PIN,
         SPECIAL_PIN_0, SPECIAL_PIN_1, SPECIAL_PIN_2, SPECIAL_PIN_4}

\* uint8_t pins[] of inference_timing_cycle_routine
pins == <<SPECIAL_PIN_0, SPECIAL_PIN_1, SPECIAL_PIN_2, SPECIAL_PIN_4>>

\* "Unset": the program has not driven the pin yet
Levels == {"Unset", "Low", "High"}

\* The four driver steps of init_pin_output, in call order; FailSteps names
\* the step that returns an error (0: none does).
StepInitialize   == 1
StepPowerControl == 2
StepSetDirection == 3
StepSetValue     == 4
FailSteps == 0..4

EvSetValue(pin, level, by) == <<"SetValue", pin, level, by>>
EvWait(ms)                 == <<"Wait", ms>>
EvLog(what)                == <<"Log", what>>

IsSetValue(e) == e[1] = "SetValue"

\* driver->SetValue(pin, level) that returns ARM_DRIVER_OK drives the pin
DriveLine(ln, pin, level) == [ln EXCEPT ![pin] = level]

\* init_pin_output(driver, pin): the result, the pin levels and the SetValue
\* calls it leaves behind when driver step `fail` returns an error.
init_pin_output(ln, pin, fail) ==
    IF fail \in {StepInitialize, StepPowerControl, StepSetDirection}
    THEN [ret |-> "ARM_DRIVER_ERROR", line |-> ln, calls |-> <<>>]
    ELSE IF fail = StepSetValue
    THEN [ret |-> "ARM_DRIVER_ERROR", line |-> ln,
          calls |-> <<EvSetValue(pin, "Low", "init")>>]
    ELSE [ret |-> "ARM_DRIVER_OK", line |-> DriveLine(ln, pin, "Low"),
          calls |-> <<EvSetValue(pin, "Low", "init")>>]

RECURSIVE InitPins(_, _, _, _)
\* The chain "if (init_pin_output(gpio0, P) != ARM_DRIVER_OK) return -k;" over
\* the pins ps, from the k-th on; fails[k] is the failing step of the k-th pin.
InitPins(ln, ps, fails, k) ==
    IF k > Len(ps)
    THEN [ret |-> 0, line |-> ln, calls |-> <<>>]
    ELSE LET r == init_pin_output(ln, ps[k], fails[k]) IN
         IF r.ret # "ARM_DRIVER_OK"
         THEN [ret |-> 0 - k, line |-> r.line, calls |-> r.calls]
         ELSE LET rest == InitPins(r.line, ps, fails, k + 1) IN
              [ret |-> rest.ret, line |-> rest.line, calls |-> r.calls \o rest.calls]

\* int inference_timing_init(void); t is the trace the call appends to
inference_timing_init(t, fails) ==
    LET r == InitPins(line, <<PRE_INFERENCE_GPIO_PIN, POST_INFERENCE_GPIO_PIN>>, fails, 1) IN
    /\ line' = r.line
    /\ trace' = t \o r.calls
    /\ initialized' = IF r.ret = 0 THEN TRUE ELSE initialized
    /\ initRet' = <<r.ret>>
    /\ UNCHANGED <<special_initialized, specialRet, i>>

\* the SetValue calls of a sequence, attributed to operation `by`
Retag(calls, by) == [k \in 1..Len(calls) |-> EvSetValue(calls[k][2], calls[k][3], by)]

\* int inference_timing_special_init(void)
inference_timing_special_init(t, fails) ==
    LET r == InitPins(line, pins, fails, 1) IN
    /\ line' = r.line
    /\ trace' = t \o Retag(r.calls, "special_init")
    /\ special_initialized' = IF r.ret = 0 THEN TRUE ELSE special_initialized
    /\ specialRet' = <<r.ret>>
    /\ UNCHANGED <<initialized, initRet, i>>

\* The body shared by inference_timing_pre_start/pre_end/post_start/post_end:
\* "if (initialized) { printf(...); gpio0->SetValue(pin, level); }"
SignalOp(t, pin, level, by) ==
    /\ IF initialized
       THEN /\ line' = DriveLine(line, pin, level)
            /\ trace' = Append(t, EvSetValue(pin, level, by))
       ELSE /\ line' = line
            /\ trace' = t
    /\ UNCHANGED <<initialized, special_initialized, initRet, specialRet, i>>

\* pre_start without the "if (initialized)" guard
inference_timing_pre_start_Unguarded(t) ==
    /\ line' = DriveLine(line, PRE_INFERENCE_GPIO_PIN, "High")
    /\ trace' = Append(t, EvSetValue(PRE_INFERENCE_GPIO_PIN, "High", "pre_start"))
    /\ UNCHANGED <<initialized, special_initialized, initRet, specialRet, i>>

inference_timing_pre_start(t)  == SignalOp(t, PRE_INFERENCE_GPIO_PIN, "High", "pre_start")
\* pre_end driving the line High, as pre_start does
inference_timing_pre_end_High(t) == SignalOp(t, PRE_INFERENCE_GPIO_PIN, "High", "pre_end")

\* post_start driving the pre-inference pin
inference_timing_post_start_PrePin(t) == SignalOp(t, PRE_INFERENCE_GPIO_PIN, "High", "post_start")

\* pre_end driving the post-inference pin
inference_timing_pre_end_PostPin(t) == SignalOp(t, POST_INFERENCE_GPIO_PIN, "Low", "pre_end")

inference_timing_pre_end(t)    == SignalOp(t, PRE_INFERENCE_GPIO_PIN, "Low", "pre_end")
inference_timing_post_start(t) == SignalOp(t, POST_INFERENCE_GPIO_PIN, "High", "post_start")
inference_timing_post_end(t)   == SignalOp(t, POST_INFERENCE_GPIO_PIN, "Low", "post_end")

(***************************************************************************)
(* inference_timing_cycle_routine, one step per driver call or wait        *)
(***************************************************************************)
\* the routine without its "if (!special_initialized)" guard
Cycle_Enter_Unguarded(t) ==
    /\ trace' = t
    /\ pc' = "c_high"
    /\ i' = 0
    /\ UNCHANGED <<initialized, special_initialized, line, initRet, specialRet>>

\* "if (!special_initialized) { printf(...); return; }", else enter the loop
Cycle_Enter(t) ==
    /\ IF ~special_initialized
       THEN /\ trace' = Append(t, EvLog("Special GPIO pins not initialized!"))
            /\ pc' = "idle"
       ELSE /\ trace' = t
            /\ pc' = "c_high"
    /\ i' = 0
    /\ UNCHANGED <<initialized, special_initialized, line, initRet, specialRet>>

\* gpio0->SetValue(pins[i], GPIO_PIN_OUTPUT_STATE_HIGH)
Cycle_High ==
    /\ pc = "c_high"
    /\ line' = DriveLine(line, pins[i + 1], "High")
    /\ trace' = Append(trace, EvSetValue(pins[i + 1], "High", "cycle"))
    /\ pc' = "c_wait"
    /\ UNCHANGED <<initialized, special_initialized, initRet, specialRet, i>>
    /\ UNCHANGED <<model, loadVars, mainVars>>

\* sleep_or_wait_msec(1000)
Cycle_Wait ==
    /\ pc = "c_wait"
    /\ trace' = Append(trace, EvWait(1000))
    /\ pc' = "c_low"
    /\ UNCHANGED <<ctlVars, model, loadVars, mainVars>>

\* gpio0->SetValue(pins[i], GPIO_PIN_OUTPUT_STATE_LOW); i++
Cycle_Low ==
    /\ pc = "c_low"
    /\ line' = DriveLine(line, pins[i + 1], "Low")
    /\ trace' = Append(trace, EvSetValue(pins[i + 1], "Low", "cycle"))
    /\ IF i + 1 < 4
       THEN i' = i + 1 /\ pc' = "c_high"
       ELSE i' = 0 /\ pc' = "c_sweep"
    /\ UNCHANGED <<initialized, special_initialized, initRet, specialRet>>
    /\ UNCHANGED <<model, loadVars, mainVars>>

\* second loop: gpio0->SetValue(pins[i], GPIO_PIN_OUTPUT_STATE_LOW); i++
Cycle_Sweep ==
    /\ pc = "c_sweep"
    /\ line' = DriveLine(line, pins[i + 1], "Low")
    /\ trace' = Append(trace, EvSetValue(pins[i + 1], "Low", "sweep"))
    /\ i' = i + 1
    /\ pc' = IF i + 1 < 4 THEN "c_sweep" ELSE "idle"
    /\ UNCHANGED <<initialized, special_initialized, initRet, specialRet>>
    /\ UNCHANGED <<model, loadVars, mainVars>>

(***************************************************************************)
(* A client of inference_timing.h: any sequence of calls of the interface. *)
(* trace holds the driver calls, waits and log lines of the latest call.   *)
(***************************************************************************)
Ctl_init ==
    /\ pc = "idle"
    /\ \E fails \in [1..2 -> FailSteps] : inference_timing_init(<<>>, fails)
    /\ UNCHANGED <<pc, model, loadVars, mainVars>>

Ctl_special_init ==
    /\ pc = "idle"
    /\ \E fails \in [1..4 -> FailSteps] : inference_timing_special_init(<<>>, fails)
    /\ UNCHANGED <<pc, model, loadVars, mainVars>>

Ctl_cycle_routine ==
    /\ pc = "idle"
    /\ Cycle_Enter(<<>>)
    /\ UNCHANGED <<model, loadVars, mainVars>>

Ctl_pre_start ==
    /\ pc = "idle"
    /\ inference_timing_pre_start(<<>>)
    /\ UNCHANGED <<pc, model, loadVars, mainVars>>

Ctl_pre_end ==
    /\ pc = "idle"
    /\ inference_timing_pre_end(<<>>)
    /\ UNCHANGED <<pc, model, loadVars, mainVars>>

Ctl_post_start ==
    /\ pc = "idle"
    /\ inference_timing_post_start(<<>>)
    /\ UNCHANGED <<pc, model, loadVars, mainVars>>

Ctl_post_end ==
    /\ pc = "idle"
    /\ inference_timing_post_end(<<>>)
    /\ UNCHANGED <<pc, model, loadVars, mainVars>>

\* A client that notes the level of the pre-inference line and then calls
\* inference_timing_pre_start() immediately followed by inference_timing_pre_end()
EvGetValue(pin, level) == <<"GetValue", pin, level>>

Ctl_roundtrip_start ==
    /\ pc = "idle"
    /\ inference_timing_pre_start(<<EvGetValue(PRE_INFERENCE_GPIO_PIN,
                                                line[PRE_INFERENCE_GPIO_PIN])>>)
    /\ pc' = "rt_end"
    /\ UNCHANGED <<model, loadVars, mainVars>>

Ctl_roundtrip_end ==
    /\ pc = "rt_end"
    /\ inference_timing_pre_end(trace)
    /\ pc' = "idle"
    /\ UNCHANGED <<model, loadVars, mainVars>>

\* State at program start: the two static flags are false, no pin driven yet
InitCtlVars ==
    /\ initialized = FALSE
    /\ special_initialized = FALSE
    /\ line = [p \in Pins |-> "Unset"]
    /\ initRet = <<>>
    /\ specialRet = <<>>
    /\ i = 0
    /\ trace = <<>>

InitIdleLoad ==
    /\ inputIndex = 0
    /\ bytesRemaining = 0
    /\ totalRead = 0
    /\ chunkReqs = <<>>
    /\ loadRet = "none"

InitIdleMain ==
    /\ consumed = <<>>
    /\ loadFromUART = FALSE
    /\ inference_success = FALSE

InitCtl ==
    /\ pc = "idle"
    /\ InitCtlVars
    /\ model = <<>>
    /\ InitIdleLoad
    /\ InitIdleMain

NextCtl ==
    \/ Ctl_init
    \/ Ctl_special_init
    \/ Ctl_cycle_routine
    \/ Ctl_pre_start
    \/ Ctl_pre_end
    \/ Ctl_post_start
    \/ Ctl_post_end
    \/ Ctl_roundtrip_start
    \/ Ctl_roundtrip_end
    \/ Cycle_High
    \/ Cycle_Wait
    \/ Cycle_Low
    \/ Cycle_Sweep

SpecCtl == InitCtl /\ [][NextCtl]_vars

(***************************************************************************)
(* MainLoop.cc: LoadInputFromUART                                          *)
(***************************************************************************)
CHUNK_SIZE == 4096

\* Byte lengths of the tensors explored: whole chunks plus a tail.  They are
\* far below 2^32, chunkSize <= bytesRemaining and totalRead + bytesRemaining
\* is the tensor's length, so the uint32_t arithmetic of the fill never wraps.
Tails == {0, 1808}
TensorSizes == {k * CHUNK_SIZE + r : k \in 0..MaxChunks, r \in Tails}

\* What model.GetInputTensor(inputIndex) yields: NULL (present = FALSE) or a
\* tensor of `bytes` bytes
Tensors == [present : {TRUE}, bytes : TensorSizes] \cup [present : {FALSE}, bytes : {0}]
Models == UNION {[1..n -> Tensors] : n \in 0..MaxInputs}

\* Values uart_receive_bulk returns: 0 on success, anything else is an error
UartResults == (0 - 7)..1

\* the two branches of the conditional swapped
ChunkSizeOf_Swapped(remaining) == IF remaining > CHUNK_SIZE THEN remaining ELSE CHUNK_SIZE

\* "uint32_t chunkSize = (bytesRemaining > CHUNK_SIZE) ? CHUNK_SIZE : bytesRemaining"
ChunkSizeOf(remaining) == IF remaining > CHUNK_SIZE THEN CHUNK_SIZE ELSE remaining

\* the switch with the case labels of Timeout and Break exchanged
ErrorKind_LabelsExchanged(result) ==
    CASE result = 0 - 2 -> "RX Overflow error"
      [] result = 0 - 4 -> "RX Timeout error"
      [] result = 0 - 3 -> "RX Break error"
      [] result = 0 - 5 -> "RX Framing error"
      [] result = 0 - 6 -> "RX Parity error"
      [] OTHER          -> "Unknown error"

\* "switch (result)" of the error report
ErrorKind(result) ==
    CASE result = 0 - 2 -> "RX Overflow error"
      [] result = 0 - 3 -> "RX Timeout error"
      [] result = 0 - 4 -> "RX Break error"
      [] result = 0 - 5 -> "RX Framing error"
      [] result = 0 - 6 -> "RX Parity error"
      [] OTHER          -> "Unknown error"

EvInvalidTensor(idx) == <<"Invalid input tensor", idx>>
EvUartError(result, received, total, kind) == <<"UART receive error", result, received, total, kind>>
EvTensorLoaded(idx) == <<"Input tensor loaded", idx>>

\* "if (!inputTensor || inputTensor->bytes == 0)"
InvalidTensor(t) == ~t.present \/ t.bytes = 0

\* numInputs = model.GetNumInputs(); the for loop starts at index 0
Load_Begin ==
    /\ pc = "l_entry"
    /\ inputIndex' = 0
    /\ bytesRemaining' = 0
    /\ totalRead' = 0
    /\ chunkReqs' = <<>>
    /\ loadRet' = "none"
    /\ trace' = Append(trace, EvLog("Loading Input from UART"))
    /\ pc' = "l_for"
    /\ UNCHANGED <<ctlVars, model, mainVars>>

\* invalid tensor: printf_err and return instead of continue
Load_SkipInvalid_Return ==
    /\ pc = "l_for"
    /\ inputIndex < Len(model)
    /\ InvalidTensor(model[inputIndex + 1])
    /\ trace' = Append(trace, EvInvalidTensor(inputIndex))
    /\ loadRet' = "void"
    /\ pc' = "l_ret"
    /\ UNCHANGED <<inputIndex, bytesRemaining, totalRead, chunkReqs>>
    /\ UNCHANGED <<ctlVars, model, mainVars>>

\* invalid tensor: printf_err and continue
Load_SkipInvalid ==
    /\ pc = "l_for"
    /\ inputIndex < Len(model)
    /\ InvalidTensor(model[inputIndex + 1])
    /\ trace' = Append(trace, EvInvalidTensor(inputIndex))
    /\ inputIndex' = inputIndex + 1
    /\ UNCHANGED <<pc, bytesRemaining, totalRead, chunkReqs, loadRet>>
    /\ UNCHANGED <<ctlVars, model, mainVars>>

\* valid tensor: bytesRemaining = inputTensor->bytes; totalRead = 0
Load_StartFill ==
    /\ pc = "l_for"
    /\ inputIndex < Len(model)
    /\ ~InvalidTensor(model[inputIndex + 1])
    /\ bytesRemaining' = model[inputIndex + 1].bytes
    /\ totalRead' = 0
    /\ pc' = "l_while"
    /\ UNCHANGED <<inputIndex, chunkReqs, loadRet, trace>>
    /\ UNCHANGED <<ctlVars, model, mainVars>>

\* the error report counting the failing chunk as received
Load_ChunkError_CountsFailing(result) ==
    /\ chunkReqs' = Append(chunkReqs,
                           [tensor |-> inputIndex, offset |-> totalRead,
                            size |-> ChunkSizeOf(bytesRemaining), result |-> result])
    /\ trace' = Append(trace, EvUartError(result, totalRead + ChunkSizeOf(bytesRemaining),
                                          model[inputIndex + 1].bytes, ErrorKind(result)))
    /\ loadRet' = "void"
    /\ pc' = "l_ret"
    /\ UNCHANGED <<inputIndex, bytesRemaining, totalRead>>

\* the error ending only the tensor's fill: the for loop goes on
Load_ChunkError_Continue(result) ==
    /\ chunkReqs' = Append(chunkReqs,
                           [tensor |-> inputIndex, offset |-> totalRead,
                            size |-> ChunkSizeOf(bytesRemaining), result |-> result])
    /\ trace' = Append(trace, EvUartError(result, totalRead,
                                          model[inputIndex + 1].bytes, ErrorKind(result)))
    /\ inputIndex' = inputIndex + 1
    /\ pc' = "l_for"
    /\ UNCHANGED <<bytesRemaining, totalRead, loadRet>>

\* uart_receive_bulk returned non-zero: report and return from the load
Load_ChunkError(result) ==
    /\ chunkReqs' = Append(chunkReqs,
                           [tensor |-> inputIndex, offset |-> totalRead,
                            size |-> ChunkSizeOf(bytesRemaining), result |-> result])
    /\ trace' = Append(trace, EvUartError(result, totalRead,
                                          model[inputIndex + 1].bytes, ErrorKind(result)))
    /\ loadRet' = "void"
    /\ pc' = "l_ret"
    /\ UNCHANGED <<inputIndex, bytesRemaining, totalRead>>

\* "bytesRemaining -= chunkSize" done before the chunk size is added to totalRead
Load_ChunkOk_StaleSize(result) ==
    /\ chunkReqs' = Append(chunkReqs,
                           [tensor |-> inputIndex, offset |-> totalRead,
                            size |-> ChunkSizeOf(bytesRemaining), result |-> result])
    /\ bytesRemaining' = bytesRemaining - ChunkSizeOf(bytesRemaining)
    /\ totalRead' = totalRead + ChunkSizeOf(bytesRemaining')
    /\ UNCHANGED <<pc, inputIndex, loadRet, trace>>

\* "totalRead += chunkSize" missing: every chunk lands at the same offset
Load_ChunkOk_NoAdvance(result) ==
    /\ chunkReqs' = Append(chunkReqs,
                           [tensor |-> inputIndex, offset |-> totalRead,
                            size |-> ChunkSizeOf(bytesRemaining), result |-> result])
    /\ bytesRemaining' = bytesRemaining - ChunkSizeOf(bytesRemaining)
    /\ UNCHANGED <<pc, inputIndex, totalRead, loadRet, trace>>

\* uart_receive_bulk returned 0: totalRead += chunkSize; bytesRemaining -= chunkSize
Load_ChunkOk(result) ==
    /\ chunkReqs' = Append(chunkReqs,
                           [tensor |-> inputIndex, offset |-> totalRead,
                            size |-> ChunkSizeOf(bytesRemaining), result |-> result])
    /\ totalRead' = totalRead + ChunkSizeOf(bytesRemaining)
    /\ bytesRemaining' = bytesRemaining - ChunkSizeOf(bytesRemaining)
    /\ UNCHANGED <<pc, inputIndex, loadRet, trace>>

\* one iteration of "while (bytesRemaining > 0)"
Load_Chunk ==
    /\ pc = "l_while"
    /\ bytesRemaining > 0
    /\ \E result \in UartResults :
          IF result # 0 THEN Load_ChunkError(result) ELSE Load_ChunkOk(result)
    /\ UNCHANGED <<ctlVars, model, mainVars>>

\* the while loop ends: "Input tensor %zu loaded successfully!"; inputIndex++
Load_FillDone ==
    /\ pc = "l_while"
    /\ bytesRemaining = 0
    /\ trace' = Append(trace, EvTensorLoaded(inputIndex))
    /\ inputIndex' = inputIndex + 1
    /\ pc' = "l_for"
    /\ UNCHANGED <<bytesRemaining, totalRead, chunkReqs, loadRet>>
    /\ UNCHANGED <<ctlVars, model, mainVars>>

\* the for loop ends: "All input tensors loaded"; the function returns (void)
Load_Done ==
    /\ pc = "l_for"
    /\ inputIndex >= Len(model)
    /\ trace' = Append(trace, EvLog("All input tensors loaded"))
    /\ loadRet' = "void"
    /\ pc' = "l_ret"
    /\ UNCHANGED <<inputIndex, bytesRemaining, totalRead, chunkReqs>>
    /\ UNCHANGED <<ctlVars, model, mainVars>>

\* LoadInputFromUART(model) called on its own, for every model explored
InitLoad ==
    /\ pc = "l_entry"
    /\ InitCtlVars
    /\ model \in Models
    /\ InitIdleLoad
    /\ InitIdleMain

NextLoad ==
    \/ Load_Begin
    \/ Load_SkipInvalid
    \/ Load_StartFill
    \/ Load_Chunk
    \/ Load_FillDone
    \/ Load_Done

SpecLoad == InitLoad /\ [][NextLoad]_vars

(***************************************************************************)
(* MainLoop.cc: WaitForInputChoice and MainLoop                            *)
(***************************************************************************)
\* Characters uart_getchar may deliver: the four valid ones and two others
Chars == {"y", "Y", "n", "N", "x", "q"}

\* only the lower-case letter accepted
IsYes_LowerOnly(c) == c = "y"

\* "c == 'y' || c == 'Y'"
IsYes(c) == c = "y" \/ c = "Y"
\* "c == 'n' || c == 'N'"
IsNo(c) == c = "n" \/ c = "N"

\* Characters of s[1..n] that are neither yes nor no
RECURSIVE Discarded(_, _)
Discarded(s, n) ==
    IF n = 0 THEN 0
    ELSE Discarded(s, n - 1) + (IF IsYes(s[n]) \/ IsNo(s[n]) THEN 0 ELSE 1)

EvInferCall      == <<"RunInferenceHandler", "called">>
EvInferRet(ok)   == <<"RunInferenceHandler", "returned", ok>>
EvReport(ok)     == <<"Report", ok>>

\* "if (!model.Init(...)) { printf_err(...); return; }"
Main_ModelInit ==
    /\ pc = "m_start"
    /\ \E ok \in BOOLEAN :
          IF ok
          THEN /\ pc' = "m_timing_init"
               /\ trace' = trace
          ELSE /\ pc' = "m_returned"
               /\ trace' = Append(trace, EvLog("Failed to initialise model"))
    /\ UNCHANGED <<ctlVars, model, loadVars, mainVars>>

\* a failed inference_timing_init() treated as fatal: MainLoop returns
Main_TimingInit_Fatal ==
    /\ pc = "m_timing_init"
    /\ \E fails \in [1..2 -> FailSteps] : inference_timing_init(trace, fails)
    /\ pc' = IF initRet'[1] = 0 THEN "m_init_report" ELSE "m_returned"
    /\ UNCHANGED <<model, loadVars, mainVars>>

\* "inference_timing_init() == 0"
Main_TimingInit ==
    /\ pc = "m_timing_init"
    /\ \E fails \in [1..2 -> FailSteps] : inference_timing_init(trace, fails)
    /\ pc' = "m_init_report"
    /\ UNCHANGED <<model, loadVars, mainVars>>

\* info(...) on success, printf_err("Warning: ...") otherwise; then the loop
Main_InitReport ==
    /\ pc = "m_init_report"
    /\ trace' = Append(trace, EvLog(IF initRet[1] = 0
                                    THEN "GPIO timing pins initialized"
                                    ELSE "Warning: Failed to initialize GPIO timing pins"))
    /\ pc' = "m_loop"
    /\ UNCHANGED <<ctlVars, model, loadVars, mainVars>>

\* WaitForInputChoice: the prompt
Wait_Prompt ==
    /\ pc = "m_loop"
    /\ trace' = Append(trace, EvLog("Load input tensor data from UART? (y/n): "))
    /\ pc' = "w_getchar"
    /\ UNCHANGED <<ctlVars, model, loadVars, mainVars>>

\* WaitForInputChoice: one iteration of "while (true) { char c = uart_getchar(); ... }"
WaitForInputChoice(c) ==
    /\ consumed' = Append(consumed, c)
    /\ IF IsYes(c)
       THEN /\ loadFromUART' = TRUE
            /\ pc' = "m_branch"
       ELSE IF IsNo(c)
       THEN /\ loadFromUART' = FALSE
            /\ pc' = "m_branch"
       ELSE /\ loadFromUART' = loadFromUART
            /\ pc' = "w_getchar"

Wait_GetChar ==
    /\ pc = "w_getchar"
    /\ \E c \in Chars :
          /\ (IsYes(c) \/ IsNo(c) \/ Discarded(consumed, Len(consumed)) < MaxDiscard)
          /\ WaitForInputChoice(c)
    /\ UNCHANGED <<ctlVars, trace, model, loadVars, inference_success>>

\* "if (loadFromUART) LoadInputFromUART(model); else info(...)"
Main_Branch ==
    /\ pc = "m_branch"
    /\ IF loadFromUART
       THEN /\ pc' = "l_entry"
            /\ trace' = trace
       ELSE /\ pc' = "m_pre_start"
            /\ trace' = Append(trace, EvLog("Using default/random input data"))
    /\ UNCHANGED <<ctlVars, model, loadVars, mainVars>>

\* LoadInputFromUART returned; "--- Starting Inference ---"
Main_AfterLoad ==
    /\ pc = "l_ret"
    /\ pc' = "m_pre_start"
    /\ UNCHANGED <<ctlVars, trace, model, loadVars, mainVars>>

Main_PreStart ==
    /\ pc = "m_pre_start"
    /\ inference_timing_pre_start(trace)
    /\ pc' = "m_pre_wait"
    /\ UNCHANGED <<model, loadVars, mainVars>>

\* sleep_or_wait_msec(50)
Main_PreWait ==
    /\ pc = "m_pre_wait"
    /\ trace' = Append(trace, EvWait(50))
    /\ pc' = "m_pre_end"
    /\ UNCHANGED <<ctlVars, model, loadVars, mainVars>>

\* the pre-inference line not deasserted before the inference
Main_PreEnd_Skipped ==
    /\ pc = "m_pre_end"
    /\ pc' = "m_infer"
    /\ UNCHANGED <<ctlVars, trace, model, loadVars, mainVars>>

Main_PreEnd ==
    /\ pc = "m_pre_end"
    /\ inference_timing_pre_end(trace)
    /\ pc' = "m_infer"
    /\ UNCHANGED <<model, loadVars, mainVars>>

\* arm::app::RunInferenceHandler(caseContext) is entered
Main_InferCall ==
    /\ pc = "m_infer"
    /\ trace' = Append(trace, EvInferCall)
    /\ pc' = "m_inferring"
    /\ UNCHANGED <<ctlVars, model, loadVars, mainVars>>

\* the post-inference pulse made conditional on the result of the inference
Main_InferReturn_SkipPostOnFailure ==
    /\ pc = "m_inferring"
    /\ \E ok \in BOOLEAN :
          /\ inference_success' = ok
          /\ trace' = Append(trace, EvInferRet(ok))
          /\ pc' = IF ok THEN "m_post_start" ELSE "m_report"
    /\ UNCHANGED <<ctlVars, model, loadVars, consumed, loadFromUART>>

\* "bool inference_success = arm::app::RunInferenceHandler(caseContext)"
Main_InferReturn ==
    /\ pc = "m_inferring"
    /\ \E ok \in BOOLEAN :
          /\ inference_success' = ok
          /\ trace' = Append(trace, EvInferRet(ok))
    /\ pc' = "m_post_start"
    /\ UNCHANGED <<ctlVars, model, loadVars, consumed, loadFromUART>>

Main_PostStart ==
    /\ pc = "m_post_start"
    /\ inference_timing_post_start(trace)
    /\ pc' = "m_post_wait"
    /\ UNCHANGED <<model, loadVars, mainVars>>

\* sleep_or_wait_msec(50)
Main_PostWait ==
    /\ pc = "m_post_wait"
    /\ trace' = Append(trace, EvWait(50))
    /\ pc' = "m_post_end"
    /\ UNCHANGED <<ctlVars, model, loadVars, mainVars>>

Main_PostEnd ==
    /\ pc = "m_post_end"
    /\ inference_timing_post_end(trace)
    /\ pc' = "m_report"
    /\ UNCHANGED <<model, loadVars, mainVars>>

\* "if (inference_success) info(...) else printf_err(...)"
Main_Report ==
    /\ pc = "m_report"
    /\ trace' = Append(trace, EvReport(inference_success))
    /\ pc' = "m_spin"
    /\ UNCHANGED <<ctlVars, model, loadVars, mainVars>>

\* the outer "while (true)" taken again instead of the idle spin
Main_Spin_LoopsBack ==
    /\ pc = "m_spin"
    /\ pc' = "m_loop"
    /\ UNCHANGED <<ctlVars, trace, model, loadVars, mainVars>>

\* "while (true) {}"
Main_Spin ==
    /\ pc = "m_spin"
    /\ UNCHANGED vars

\* MainLoop is explored on the models whose tensors take at most one chunk;
\* the longer fills are explored on LoadInputFromUART itself (SpecLoad)
MainModels == {m \in Models : \A k \in 1..Len(m) : m[k].bytes <= CHUNK_SIZE}

Init ==
    /\ pc = "m_start"
    /\ InitCtlVars
    /\ model \in MainModels
    /\ InitIdleLoad
    /\ InitIdleMain

Next ==
    \/ Main_ModelInit
    \/ Main_TimingInit
    \/ Main_InitReport
    \/ Wait_Prompt
    \/ Wait_GetChar
    \/ Main_Branch
    \/ Load_Begin
    \/ Load_SkipInvalid
    \/ Load_StartFill
    \/ Load_Chunk
    \/ Load_FillDone
    \/ Load_Done
    \/ Main_AfterLoad
    \/ Main_PreStart
    \/ Main_PreWait
    \/ Main_PreEnd
    \/ Main_InferCall
    \/ Main_InferReturn
    \/ Main_PostStart
    \/ Main_PostWait
    \/ Main_PostEnd
    \/ Main_Report
    \/ Main_Spin

Spec == Init /\ [][Next]_vars

(***************************************************************************)
(* Properties                                                              *)
(***************************************************************************)
EvPrompt == EvLog("Load input tensor data from UART? (y/n): ")

InTrace(e) == \E k \in 1..Len(trace) : trace[k] = e

\* the last call of inference_timing_init returned an error
InitFailed == initRet # <<>> /\ initRet[1] # 0
InitSucceeded == initRet # <<>> /\ initRet[1] = 0

SignalOps == {"pre_start", "pre_end", "post_start", "post_end"}

\* a driver SetValue call issued by one of the four assert/deassert operations
IsSignalSetValue(e) == IsSetValue(e) /\ e[4] \in SignalOps

\* C1: after a call of inference_timing_init() in which a configuration step
\* failed, also when an earlier call had succeeded, the initialized flag is
\* false and the assert/deassert operations issue no SetValue.
C1_FailedInitLeavesUninitialized ==
    InitFailed =>
        /\ ~initialized
        /\ \A k \in 1..Len(trace) : ~IsSignalSetValue(trace[k])

\* C2: in MainLoop a failed inference_timing_init() is not fatal: MainLoop does
\* not return, the choice is prompted for, RunInferenceHandler is invoked, and
\* the pre/post operations issue no SetValue, so no line is ever driven High.
C2_InitFailureNonFatal ==
    InitFailed =>
        /\ pc # "m_returned"
        /\ ~initialized
        /\ \A k \in 1..Len(trace) : ~IsSignalSetValue(trace[k])
        /\ \A p \in Pins : line[p] # "High"
        /\ (pc \notin {"m_init_report", "m_loop"}) => InTrace(EvPrompt)
        /\ (pc \in {"m_inferring", "m_post_start", "m_post_wait", "m_post_end",
                    "m_report", "m_spin"}) => InTrace(EvInferCall)
        /\ (pc \in {"m_post_start", "m_post_wait", "m_post_end", "m_report", "m_spin"})
              => InTrace(EvInferRet(inference_success))

\* the loop body ran to its end although the timing signals failed to initialize
C2_Witness ==
    /\ InitFailed
    /\ pc = "m_spin"
    /\ InTrace(EvPrompt)
    /\ InTrace(EvInferCall)

\* The events of one loop body from the pre-inference pulse to the report
PulseSequence(ok) ==
    << EvSetValue(PRE_INFERENCE_GPIO_PIN, "High", "pre_start"),
       EvWait(50),
       EvSetValue(PRE_INFERENCE_GPIO_PIN, "Low", "pre_end"),
       EvInferCall,
       EvInferRet(ok),
       EvSetValue(POST_INFERENCE_GPIO_PIN, "High", "post_start"),
       EvWait(50),
       EvSetValue(POST_INFERENCE_GPIO_PIN, "Low", "post_end"),
       EvReport(ok) >>

\* an event of the kinds that make up PulseSequence
IsPulseEvent(e) ==
    \/ IsSignalSetValue(e)
    \/ e[1] \in {"Wait", "RunInferenceHandler", "Report"}

\* C3: with the timing signals initialized, a loop body that reached its end
\* made exactly the events pre High, 50 ms wait, pre Low, RunInferenceHandler
\* called and returned, post High, 50 ms wait, post Low, report, in this order
\* and nothing of these kinds before; the report is success iff the handler
\* returned true.
C3_PulseOrder ==
    (pc = "m_spin" /\ InitSucceeded) =>
        /\ Len(trace) >= 9
        /\ SubSeq(trace, Len(trace) - 8, Len(trace)) = PulseSequence(inference_success)
        /\ \A k \in 1..(Len(trace) - 9) : ~IsPulseEvent(trace[k])

\* a run with a transport error during the load and a failed inference
C3_Witness ==
    /\ pc = "m_spin"
    /\ InitSucceeded
    /\ loadFromUART
    /\ \E k \in 1..Len(chunkReqs) : chunkReqs[k].result # 0
    /\ ~inference_success
    /\ InTrace(EvReport(FALSE))

(***************************************************************************)
(* Properties of LoadInputFromUART                                         *)
(***************************************************************************)
\* the chunk requests issued for tensor idx, in order
ReqsOf(idx) == SelectSeq(chunkReqs, LAMBDA r : r.tensor = idx)

RECURSIVE SumSizes(_, _)
SumSizes(R, n) == IF n = 0 THEN 0 ELSE SumSizes(R, n - 1) + R[n].size

AllOk(R) == \A j \in 1..Len(R) : R[j].result = 0
SomeRequestFailed == \E j \in 1..Len(chunkReqs) : chunkReqs[j].result # 0

CeilDiv(n) == (n + CHUNK_SIZE - 1) \div CHUNK_SIZE

TensorIndices == 0..(Len(model) - 1)
BytesOf(idx) == model[idx + 1].bytes
AbsentOrEmpty(idx) == ~model[idx + 1].present \/ model[idx + 1].bytes = 0

\* the fill of tensor idx ran to its end
FillComplete(idx) ==
    \/ idx < inputIndex
    \/ idx = inputIndex /\ pc = "l_while" /\ bytesRemaining = 0

\* C4: a fill of N > 0 bytes in which no chunk request fails issues exactly
\* ceil(N / 4096) requests, each of 4096 bytes except the last, which takes
\* the rest; each request starts at the bytes transferred so far, and
\* totalRead ends at N.
C4_ChunkCount ==
    \A idx \in TensorIndices :
        LET R == ReqsOf(idx)
            N == BytesOf(idx)
        IN  AllOk(R) =>
              /\ Len(R) <= CeilDiv(N)
              /\ \A j \in 1..Len(R) :
                    /\ R[j].size = IF j < CeilDiv(N) THEN CHUNK_SIZE
                                   ELSE N - CHUNK_SIZE * (CeilDiv(N) - 1)
                    /\ R[j].offset = SumSizes(R, j - 1)
              /\ (idx = inputIndex /\ pc = "l_while") => totalRead = SumSizes(R, Len(R))
              /\ (FillComplete(idx) /\ ~AbsentOrEmpty(idx)) =>
                    /\ Len(R) = CeilDiv(N)
                    /\ SumSizes(R, Len(R)) = N
                    /\ (idx = inputIndex) => totalRead = N

\* fill of 10000 bytes done in requests of 4096, 4096 and 1808 bytes
C4_Witness ==
    /\ pc = "l_while"
    /\ bytesRemaining = 0
    /\ BytesOf(inputIndex) = 10000
    /\ totalRead = 10000
    /\ Len(ReqsOf(inputIndex)) = 3
    /\ ReqsOf(inputIndex)[1].size = 4096
    /\ ReqsOf(inputIndex)[2].size = 4096
    /\ ReqsOf(inputIndex)[3].size = 1808

\* C5: when the k-th chunk request of a fill is the first to fail, the byte
\* count reported with the error is (k - 1) * 4096: the failing chunk adds
\* nothing.
C5_ErrorByteCount ==
    (pc = "l_ret" /\ SomeRequestFailed) =>
        LET last == chunkReqs[Len(chunkReqs)]
            k    == Len(ReqsOf(last.tensor))
            rep  == trace[Len(trace)]
        IN  /\ rep[1] = "UART receive error"
            /\ rep[2] = last.result
            /\ rep[3] = (k - 1) * CHUNK_SIZE
            /\ rep[4] = BytesOf(last.tensor)
            /\ totalRead = (k - 1) * CHUNK_SIZE

\* fill of 8192 bytes, timeout (-3) on the second request, 4096 bytes reported
C5_Witness ==
    /\ pc = "l_ret"
    /\ SomeRequestFailed
    /\ BytesOf(inputIndex) = 8192
    /\ Len(ReqsOf(inputIndex)) = 2
    /\ chunkReqs[Len(chunkReqs)].result = 0 - 3
    /\ trace[Len(trace)] = EvUartError(0 - 3, 4096, 8192, "RX Timeout error")

\* C6: the chunk requests of a load go through the tensors in ascending index
\* order, a tensor is left only when its last byte has been requested, and a
\* request that returns an error is the last request of the load.
C6_StopOnFirstError ==
    /\ \A j \in 1..Len(chunkReqs) : chunkReqs[j].result # 0 => j = Len(chunkReqs)
    /\ \A j \in 1..(Len(chunkReqs) - 1) :
          LET a == chunkReqs[j]
              b == chunkReqs[j + 1]
          IN  /\ a.tensor <= b.tensor
              /\ a.tensor = b.tensor => b.offset = a.offset + a.size
              /\ a.tensor < b.tensor =>
                    /\ a.offset + a.size = BytesOf(a.tensor)
                    /\ b.offset = 0
    /\ SomeRequestFailed => pc = "l_ret" /\ inputIndex = chunkReqs[Len(chunkReqs)].tensor

\* the load returned on an error in tensor 0 with a valid tensor 1 never requested
C6_Witness ==
    /\ pc = "l_ret"
    /\ SomeRequestFailed
    /\ Len(model) = 2
    /\ ~AbsentOrEmpty(1)
    /\ Len(chunkReqs) = 2
    /\ chunkReqs[2].tensor = 0
    /\ BytesOf(0) > CHUNK_SIZE + CHUNK_SIZE

\* C7: a load in which a transport error occurred hands an overall failure
\* back to its caller.
C7_FailureReturnedToCaller ==
    (pc = "l_ret" /\ SomeRequestFailed) => loadRet = "failure"

\* C8 (state part): during a fill and at its abort, 0 <= totalRead <= N and
\* totalRead + bytesRemaining = N.
C8_Bounds ==
    (pc = "l_while" \/ (pc = "l_ret" /\ SomeRequestFailed)) =>
        /\ 0 <= totalRead
        /\ totalRead <= BytesOf(inputIndex)
        /\ totalRead + bytesRemaining = BytesOf(inputIndex)

\* C8 (step part): a step of a fill either completes a chunk, with totalRead
\* growing and still short of N before it, or ends the fill with totalRead = N,
\* or is the first request that returns an error.
C8_Step ==
    pc = "l_while" =>
        \/ /\ pc' = "l_while"
           /\ totalRead < BytesOf(inputIndex)
           /\ totalRead' > totalRead
           /\ Len(chunkReqs') = Len(chunkReqs) + 1
           /\ chunkReqs'[Len(chunkReqs')].result = 0
        \/ /\ pc' = "l_for"
           /\ totalRead = BytesOf(inputIndex)
           /\ chunkReqs' = chunkReqs
        \/ /\ pc' = "l_ret"
           /\ totalRead < BytesOf(inputIndex)
           /\ totalRead' = totalRead
           /\ Len(chunkReqs') = Len(chunkReqs) + 1
           /\ chunkReqs'[Len(chunkReqs')].result # 0

\* C8: totalRead never decreases, stays within 0..N with
\* totalRead + bytesRemaining = N, and the fill stops exactly at totalRead = N
\* or at the first chunk request that returns an error.
C8_FillInvariant == []C8_Bounds /\ [][C8_Step]_vars

\* in the middle of a fill: one chunk done, more to come
C8_Witness ==
    /\ pc = "l_while"
    /\ totalRead = CHUNK_SIZE
    /\ bytesRemaining > 0
    /\ totalRead + bytesRemaining = BytesOf(inputIndex)

IsTensorEvent(e) == e[1] \in {"Invalid input tensor", "Input tensor loaded"}

\* C9: an absent or zero-length tensor gets an error report and no chunk
\* request, and the load goes on: a load without transport error visits every
\* tensor in index order and fills every valid one completely.
C9_InvalidTensorSkipped ==
    /\ \A j \in 1..Len(chunkReqs) : ~AbsentOrEmpty(chunkReqs[j].tensor)
    /\ \A idx \in TensorIndices :
          (idx < inputIndex /\ AbsentOrEmpty(idx)) => InTrace(EvInvalidTensor(idx))
    /\ \A a, b \in 1..Len(trace) :
          (a < b /\ IsTensorEvent(trace[a]) /\ IsTensorEvent(trace[b]))
              => trace[a][2] < trace[b][2]
    /\ (pc = "l_ret" /\ ~SomeRequestFailed) =>
          /\ inputIndex = Len(model)
          /\ \A idx \in TensorIndices :
                IF AbsentOrEmpty(idx)
                THEN InTrace(EvInvalidTensor(idx)) /\ ~InTrace(EvTensorLoaded(idx))
                ELSE /\ InTrace(EvTensorLoaded(idx))
                     /\ SumSizes(ReqsOf(idx), Len(ReqsOf(idx))) = BytesOf(idx)

\* an absent tensor 0 reported and skipped, the valid tensor 1 then loaded
C9_Witness ==
    /\ pc = "l_ret"
    /\ Len(model) = 2
    /\ ~model[1].present
    /\ InTrace(EvInvalidTensor(0))
    /\ ReqsOf(0) = <<>>
    /\ InTrace(EvTensorLoaded(1))
    /\ Len(ReqsOf(1)) = 2

(***************************************************************************)
(* Properties of WaitForInputChoice                                        *)
(***************************************************************************)
ValidChoices == {"y", "Y", "n", "N"}

\* WaitForInputChoice has not been entered, is reading, or has returned
ChoiceNotStarted == pc \in {"m_start", "m_returned", "m_timing_init", "m_init_report", "m_loop"}
ChoiceReturned == ~ChoiceNotStarted /\ pc # "w_getchar"

\* C10: while WaitForInputChoice is reading, every character consumed so far
\* is outside {y, Y, n, N}; once it has returned, the characters consumed are
\* invalid ones followed by exactly one valid character, the last, and the
\* result is true for y or Y and false for n or N.
C10_ChoiceConsumption ==
    /\ ChoiceNotStarted => consumed = <<>>
    /\ pc = "w_getchar" => \A k \in 1..Len(consumed) : consumed[k] \notin ValidChoices
    /\ ChoiceReturned =>
          /\ Len(consumed) >= 1
          /\ \A k \in 1..(Len(consumed) - 1) : consumed[k] \notin ValidChoices
          /\ consumed[Len(consumed)] \in ValidChoices
          /\ loadFromUART = (consumed[Len(consumed)] \in {"y", "Y"})

\* the stream x, q, n: "no" after all three characters were consumed
C10_Witness ==
    /\ pc = "m_branch"
    /\ consumed = <<"x", "q", "n">>
    /\ ~loadFromUART

(***************************************************************************)
(* Properties of the timing-signal controller                              *)
(***************************************************************************)
\* the level each assert/deassert operation sets, and the pin it sets it on
LevelOf(by) == IF by \in {"pre_start", "post_start"} THEN "High" ELSE "Low"
PinOf(by) == IF by \in {"pre_start", "pre_end"} THEN PRE_INFERENCE_GPIO_PIN
             ELSE POST_INFERENCE_GPIO_PIN

\* the latest call of the client was assert/deassert operation `by`, and it acted
LatestCallWas(by) ==
    /\ pc = "idle"
    /\ trace # <<>>
    /\ IsSetValue(trace[Len(trace)])
    /\ trace[Len(trace)][4] = by

\* C11 (state part): right after a successful inference_timing_init() both
\* lines are Low, and right after an assert/deassert call its line has the
\* level of that call.
C11_LevelAfterCall ==
    /\ LatestCallWas("init") /\ InitSucceeded =>
          /\ line[PRE_INFERENCE_GPIO_PIN] = "Low"
          /\ line[POST_INFERENCE_GPIO_PIN] = "Low"
    /\ \A by \in SignalOps : LatestCallWas(by) => line[PinOf(by)] = LevelOf(by)

\* C11 (step part): an assert/deassert call on an initialized controller sets
\* its own line to its level and leaves every other line as it was, so each
\* line keeps the level of the most recent call on it; a call repeated right
\* after itself changes nothing.
C11_CallStep ==
    \A by \in SignalOps :
        (pc = "idle" /\ initialized /\ LatestCallWas(by)') =>
            /\ line'[PinOf(by)] = LevelOf(by)
            /\ \A p \in Pins \ {PinOf(by)} : line'[p] = line[p]
            /\ LatestCallWas(by) => line' = line

\* C11: after a successful init both lines are Low; every assert/deassert call
\* sets exactly its own line (High for *_start, Low for *_end) and no other.
C11_LineFollowsLastCall == []C11_LevelAfterCall /\ [][C11_CallStep]_vars

\* pre_end was just called while the post line is still High from post_start
C11_Witness ==
    /\ initialized
    /\ LatestCallWas("pre_end")
    /\ line[PRE_INFERENCE_GPIO_PIN] = "Low"
    /\ line[POST_INFERENCE_GPIO_PIN] = "High"

\* positions inside inference_timing_cycle_routine
CyclePcs == {"c_high", "c_wait", "c_low", "c_sweep"}

CyclePulse(p) == << EvSetValue(p, "High", "cycle"), EvWait(1000), EvSetValue(p, "Low", "cycle") >>

\* what a complete run of the routine asks of the driver and the timer
CycleSequence ==
    CyclePulse(SPECIAL_PIN_0) \o CyclePulse(SPECIAL_PIN_1) \o
    CyclePulse(SPECIAL_PIN_2) \o CyclePulse(SPECIAL_PIN_4) \o
    << EvSetValue(SPECIAL_PIN_0, "Low", "sweep"), EvSetValue(SPECIAL_PIN_1, "Low", "sweep"),
       EvSetValue(SPECIAL_PIN_2, "Low", "sweep"), EvSetValue(SPECIAL_PIN_4, "Low", "sweep") >>

\* the routine ran through and has just returned
CycleReturned == LatestCallWas("sweep")

\* the routine goes through P0_0, P0_1, P0_2, P0_4 in this order, High, one
\* 1000 ms wait, Low for each, then sets all four Low again; all four are Low
\* on return
C12_CycleOrder ==
    /\ (pc \in CyclePcs \/ CycleReturned) =>
          /\ Len(trace) <= Len(CycleSequence)
          /\ trace = SubSeq(CycleSequence, 1, Len(trace))
    /\ CycleReturned =>
          /\ trace = CycleSequence
          /\ \A p \in Pins : line[p] = "Low"

\* while the routine runs, at most one of the four lines is High
C12_AtMostOneHigh ==
    pc \in CyclePcs => Cardinality({p \in Pins : line[p] = "High"}) <= 1

\* C12: with the special lines initialized, the cycle routine handles the four
\* lines in the order P0_0, P0_1, P0_2, P0_4, each set High, held 1000 ms and
\* set Low before the next, so that at most one line is High at any time; it
\* then sets all four Low again and all four are Low on return.
C12_CycleOneLineAtATime == C12_CycleOrder /\ C12_AtMostOneHigh

EvNotInitialized == EvLog("Special GPIO pins not initialized!")

\* an event the cycle routine produces once it is past its guard
IsCycleEvent(e) ==
    \/ IsSetValue(e) /\ e[4] \in {"cycle", "sweep"}
    \/ e = EvWait(1000)

\* C13 (state part): special_initialized is true only once a call of
\* inference_timing_special_init() has returned 0; as long as it is false the
\* program is never inside the routine's loops and the trace holds none of
\* its SetValue calls or waits.
C13_NoCycleUnlessInitialized ==
    /\ special_initialized => specialRet # <<>>
    /\ specialRet = <<0>> => special_initialized
    /\ ~special_initialized =>
          /\ pc \notin CyclePcs
          /\ \A k \in 1..Len(trace) : ~IsCycleEvent(trace[k])

\* C13 (step part): the flag rises only in a call of special_init that returns
\* 0, and a call of the routine with the flag false only reports "not
\* initialized": it returns at once and changes no line.
C13_Step ==
    /\ (~special_initialized /\ special_initialized') => specialRet' = <<0>>
    /\ (~special_initialized /\ pc = "idle") => pc' \notin CyclePcs
    /\ (~special_initialized /\ pc = "idle" /\ trace' = <<EvNotInitialized>>) => line' = line

\* C13: if inference_timing_special_init() never returned success, the cycle
\* routine reports "not initialized", issues no SetValue, changes no line and
\* waits for no second, whether or not inference_timing_init() succeeded.
C13_CycleNeedsSpecialInit == []C13_NoCycleUnlessInitialized /\ [][C13_Step]_vars

\* the routine was called after a successful init and a failed special_init
C13_Witness ==
    /\ pc = "idle"
    /\ initialized
    /\ ~special_initialized
    /\ specialRet # <<>>
    /\ trace = <<EvNotInitialized>>
    /\ line[PRE_INFERENCE_GPIO_PIN] = "High"

\* the client's pre_start(); pre_end() pair has just completed on an
\* initialized controller; trace[1] is the level noted before pre_start
RoundTripDone ==
    /\ pc = "idle"
    /\ initialized
    /\ Len(trace) = 3
    /\ trace[1][1] = "GetValue"

LevelBeforeRoundTrip == trace[1][3]

\* C14 as claimed: from every state of an initialized controller, pre_start()
\* immediately followed by pre_end() leaves the pre-inference line in the
\* state it had before pre_start().
C14_RoundTripRestores ==
    RoundTripDone => line[PRE_INFERENCE_GPIO_PIN] = LevelBeforeRoundTrip

\* C14 as amended: pre_start() immediately followed by pre_end() on an
\* initialized controller leaves the pre-inference line Low and the other
\* lines untouched; that is the state before pre_start() exactly when the line
\* was Low then.
C14_RoundTripEndsLow ==
    RoundTripDone =>
        /\ trace[2] = EvSetValue(PRE_INFERENCE_GPIO_PIN, "High", "pre_start")
        /\ trace[3] = EvSetValue(PRE_INFERENCE_GPIO_PIN, "Low", "pre_end")
        /\ line[PRE_INFERENCE_GPIO_PIN] = "Low"
        /\ (line[PRE_INFERENCE_GPIO_PIN] = LevelBeforeRoundTrip) <=> (LevelBeforeRoundTrip = "Low")

\* a round trip that started with the line Low and ended with it Low
C14_Witness ==
    /\ RoundTripDone
    /\ LevelBeforeRoundTrip = "Low"
    /\ line[PRE_INFERENCE_GPIO_PIN] = "Low"
    /\ line[POST_INFERENCE_GPIO_PIN] = "High"

(***************************************************************************)
(* Properties of the error classification                                  *)
(***************************************************************************)
IsUartError(e) == e[1] = "UART receive error"

\* the error reports of the load, in order
ErrorReports == SelectSeq(trace, IsUartError)

\* the kind the classification is to give for each result
ClassifiedKinds ==
    [r \in UartResults \ {0} |->
        IF r = 0 - 2 THEN "RX Overflow error"
        ELSE IF r = 0 - 3 THEN "RX Timeout error"
        ELSE IF r = 0 - 4 THEN "RX Break error"
        ELSE IF r = 0 - 5 THEN "RX Framing error"
        ELSE IF r = 0 - 6 THEN "RX Parity error"
        ELSE "Unknown error"]

\* C15: every non-zero result of a chunk request is reported with exactly one
\* kind: -2 Overflow, -3 Timeout, -4 Break, -5 Framing, -6 Parity, anything
\* else Unknown; a result of 0 is never reported as an error and never ends
\* the fill.
C15_ErrorClassification ==
    /\ \A k \in 1..Len(ErrorReports) :
          /\ ErrorReports[k][2] # 0
          /\ ErrorReports[k][5] = ClassifiedKinds[ErrorReports[k][2]]
    /\ Len(ErrorReports) = Cardinality({j \in 1..Len(chunkReqs) : chunkReqs[j].result # 0})
    /\ SomeRequestFailed => ErrorReports[1][2] = chunkReqs[Len(chunkReqs)].result
    /\ (chunkReqs # <<>> /\ chunkReqs[Len(chunkReqs)].result = 0) =>
          \/ pc = "l_while"
          \/ pc \in {"l_for", "l_ret"} /\ FillComplete(chunkReqs[Len(chunkReqs)].tensor)

\* a result outside the table, -1, was reported as Unknown
C15_Witness ==
    /\ pc = "l_ret"
    /\ Len(ErrorReports) = 1
    /\ ErrorReports[1][2] = 0 - 1
    /\ ErrorReports[1][5] = "Unknown error"
    /\ Len(chunkReqs) = 2
    /\ chunkReqs[1].result = 0

(***************************************************************************)
(* Properties of MainLoop as a whole                                       *)
(***************************************************************************)
\* C16 as claimed: MainLoop never returns, whatever the outcome of model
\* initialization, timing-signal initialization, ingestion and inference.
C16_NeverReturns == pc # "m_returned"

\* MainLoop has returned only straight from the failed model.Init: before
\* inference_timing_init, the prompt and everything after them
C16_ReturnedOnlyFromModelInit ==
    pc = "m_returned" =>
        /\ trace = <<EvLog("Failed to initialise model")>>
        /\ initRet = <<>>
        /\ consumed = <<>>
        /\ chunkReqs = <<>>

\* C16 as amended: MainLoop returns only when model.Init fails, before the
\* loop is entered; once model initialization has succeeded it never returns,
\* whatever the outcome of timing-signal initialization, ingestion and
\* inference.
C16_ReturnsOnlyOnModelInitFailure ==
    /\ []C16_ReturnedOnlyFromModelInit
    /\ [][pc # "m_start" => pc' # "m_returned"]_vars

\* timing init failed, the load hit a transport error, the inference failed,
\* and MainLoop is in its idle spin
C16_Witness ==
    /\ pc = "m_spin"
    /\ InitFailed
    /\ loadFromUART
    /\ SomeRequestFailed
    /\ ~inference_success

\* how many times event e is in the trace
Count(e) == Cardinality({k \in 1..Len(trace) : trace[k] = e})

\* how many SetValue calls operation `by` has issued
CountBy(by) == Cardinality({k \in 1..Len(trace) : IsSetValue(trace[k]) /\ trace[k][4] = by})

\* C17 (state part): a run has at most one prompt, one load, one invocation
\* of RunInferenceHandler, one pre pulse and one post pulse.
C17_AtMostOnce ==
    /\ Count(EvPrompt) <= 1
    /\ Count(EvLog("Loading Input from UART")) <= 1
    /\ Count(EvInferCall) <= 1
    /\ \A by \in SignalOps : CountBy(by) <= 1
    /\ Count(EvReport(TRUE)) + Count(EvReport(FALSE)) <= 1

\* C17 (step part): the idle spin after the report is never left, nothing is
\* driven or logged in it, and the choice wait is never entered a second time.
C17_Step ==
    /\ pc = "m_spin" => (pc' = "m_spin" /\ line' = line /\ trace' = trace)
    /\ ChoiceReturned => pc' \notin {"m_loop", "w_getchar"}

\* C17: after the report of the first iteration MainLoop spins idle for ever:
\* at most one prompt, load, inference, pre pulse and post pulse per run, the
\* choice wait is not re-entered and no line changes after the report.
C17_OneIterationThenSpin == []C17_AtMostOnce /\ [][C17_Step]_vars

\* the idle spin after an iteration with a load and both pulses
C17_Witness ==
    /\ pc = "m_spin"
    /\ initialized
    /\ Count(EvPrompt) = 1
    /\ Count(EvLog("Loading Input from UART")) = 1
    /\ Count(EvInferCall) = 1
    /\ \A by \in SignalOps : CountBy(by) = 1
    /\ \A p \in {PRE_INFERENCE_GPIO_PIN, POST_INFERENCE_GPIO_PIN} : line[p] = "Low"

\* the pre- and post-inference lines
SignalPins == {PRE_INFERENCE_GPIO_PIN, POST_INFERENCE_GPIO_PIN}

\* C18: once the controller is initialized, the level of the pre- and the
\* post-inference line changes only in a step of pre_start, pre_end,
\* post_start or post_end (or of inference_timing_init itself): never in a
\* step of inference_timing_special_init or inference_timing_cycle_routine.
C18_OnlySignalOpsChangeSignalLines ==
    [][ (initialized /\ \E p \in SignalPins : line'[p] # line[p]) =>
            /\ trace' # <<>>
            /\ IsSetValue(trace'[Len(trace')])
            /\ trace'[Len(trace')][4] \in SignalOps \cup {"init"} ]_vars

\* positions of MainLoop: the choice wait, the ingestion, the inference
ChoiceWaitPcs == {"m_loop", "w_getchar", "m_branch"}
IngestionPcs  == {"l_entry", "l_for", "l_while", "l_ret"}
InferencePcs  == {"m_infer", "m_inferring"}
\* the two 50 ms waits: from the assert to the deassert of the line
PreWaitPcs  == {"m_pre_wait", "m_pre_end"}
PostWaitPcs == {"m_post_wait", "m_post_end"}

\* a line the program has not asserted: driven Low, or never driven at all
\* when inference_timing_init failed before reaching it
Deasserted(p) == line[p] # "High" /\ (initialized => line[p] = "Low")

C20_RangesContiguous ==
    /\ \A j \in 1..Len(chunkReqs) :
          LET r == chunkReqs[j] IN
          /\ 1 <= r.size
          /\ r.size <= CHUNK_SIZE
          /\ 0 <= r.offset
          /\ r.offset + r.size <= BytesOf(r.tensor)
          /\ (j = 1 \/ chunkReqs[j - 1].tensor # r.tensor) => r.offset = 0
          /\ (j > 1 /\ chunkReqs[j - 1].tensor = r.tensor) =>
                r.offset = chunkReqs[j - 1].offset + chunkReqs[j - 1].size
    /\ (pc = "l_ret" /\ SomeRequestFailed) =>
          totalRead = chunkReqs[Len(chunkReqs)].offset

\* C20 (step part): a chunk request targets the offset totalRead of the
\* tensor being filled.
C20_Step ==
    (chunkReqs' # chunkReqs /\ chunkReqs' # <<>>) =>
        /\ Len(chunkReqs') = Len(chunkReqs) + 1
        /\ chunkReqs'[Len(chunkReqs')].offset = totalRead
        /\ chunkReqs'[Len(chunkReqs')].tensor = inputIndex
        /\ totalRead + chunkReqs'[Len(chunkReqs')].size <= BytesOf(inputIndex)

\* C20: every chunk request of a fill of N bytes targets the range that
\* starts at bytesTransferred, with a size s, 1 <= s <= 4096 and
\* bytesTransferred + s <= N; the requests are contiguous and never reach
\* offset N or beyond, so nothing past the last requested chunk is written.
C20_RequestsWithinDestination == []C20_RangesContiguous /\ [][C20_Step]_vars

\* a fill of 10000 bytes aborted at its third request: the ranges requested
\* end at 10000, the bytes received at 8192
C20_Witness ==
    /\ pc = "l_ret"
    /\ SomeRequestFailed
    /\ BytesOf(inputIndex) = 10000
    /\ Len(ReqsOf(inputIndex)) = 3
    /\ totalRead = 8192
    /\ chunkReqs[Len(chunkReqs)].offset = 8192
    /\ chunkReqs[Len(chunkReqs)].size = 1808

====
